---------------------------- MODULE Spec2Model ----------------------------
(***************************************************************************)
(* Model of generate_plot.py: the overlap-volume function                  *)
(* calculate_overlap, the sweep of it over an angle grid, and the          *)
(* render / save / print steps of the script.                              *)
(*                                                                         *)
(* Floating point is modelled in fixed point:                              *)
(*   angles in degrees      : integers, 1 unit = 1/DegScale degree         *)
(*   angles in radians      : integers, 1 unit = 1/RadScale radian         *)
(*   sines                  : integers, 1 unit = 1/SinScale                *)
(*   thickness, height      : integers, 1 unit = 1/1000 metre              *)
(*   volumes                : integers, 1 unit = 1/10000 cubic metre       *)
(* A float result is a record [kind, val]: kind "fin" (val is the volume), *)
(* "inf" (float('inf')), "nan", or "raise" (an exception left the call).   *)
(***************************************************************************)
EXTENDS Integers, Sequences, FiniteSets, TLC

\* ------------------------------------------------------------------------
\* Fixed-point resolutions.
DegScale == 100
RadScale == 1000000
SinScale == 100000

\* ------------------------------------------------------------------------
\* Literals of the script, in the units above.
FloorDegrees == 10              \* 0.1 degrees  (line 7)
DefaultThickness == 225         \* 0.225        (line 5)
DefaultHeight == 3000           \* 3.0          (line 5)
LinspaceStart == 100            \* 1 degree     (line 14)
LinspaceStop == 9000            \* 90 degrees   (line 14)
LinspaceNum == 500              \* 500 points   (line 14)
ThresholdMarker == 1500         \* axvline(x=15)   (line 22)
YLimTop == 10000                \* ylim(0, 1.0)    (line 32)
XLimRight == 9000               \* xlim(0, 90)     (line 33)

\* ------------------------------------------------------------------------
\* Float results.
Inf == [kind |-> "inf", val |-> 0]
NaN == [kind |-> "nan", val |-> 0]
Raise == [kind |-> "raise", val |-> 0]
Fin(v) == [kind |-> "fin", val |-> v]

\* The magnitude of a quotient whose divisor is a rounding residue of the
\* order of 1e-16: finite, and larger than every other volume of the model.
Huge == 2000000000

\* ------------------------------------------------------------------------
\* np.pi, truncated to the radian resolution (binary64 pi is below pi too).
Pi == 3141592
HalfPi == Pi \div 2
TwoPi == 2 * Pi

\* np.radians(x): x * pi / 180.  Whole degrees and the fraction of a degree
\* are converted apart to stay within 32-bit integers.
np_radians(theta_deg) ==
    LET whole == theta_deg \div DegScale
        frac  == theta_deg % DegScale
    IN  (whole * Pi) \div 180 + (frac * Pi) \div (180 * DegScale)

\* sin at whole degrees 0..90, scaled by SinScale (SinTable[k + 1] = sin k deg).
SinTable ==
  << 0, 1745, 3490, 5234, 6976, 8716, 10453, 12187, 13917, 15643, 17365,
     19081, 20791, 22495, 24192, 25882, 27564, 29237, 30902, 32557, 34202,
     35837, 37461, 39073, 40674, 42262, 43837, 45399, 46947, 48481, 50000,
     51504, 52992, 54464, 55919, 57358, 58779, 60182, 61566, 62932, 64279,
     65606, 66913, 68200, 69466, 70711, 71934, 73135, 74314, 75471, 76604,
     77715, 78801, 79864, 80902, 81915, 82904, 83867, 84805, 85717, 86603,
     87462, 88295, 89101, 89879, 90631, 91355, 92050, 92718, 93358, 93969,
     94552, 95106, 95630, 96126, 96593, 97030, 97437, 97815, 98163, 98481,
     98769, 99027, 99255, 99452, 99619, 99756, 99863, 99939, 99985, 100000 >>

\* sin on the first quadrant, y in 0..HalfPi radian units: the table,
\* linearly interpolated between its nodes k * pi / 180.
SinQuarter(y) ==
    LET pos == y * 180
        k   == pos \div Pi
        f   == pos % Pi
    IN  IF f = 0
          THEN SinTable[k + 1]
          ELSE SinTable[k + 1]
                 + ((SinTable[k + 2] - SinTable[k + 1]) * (f \div 100))
                     \div (Pi \div 100 + 1)

\* sin on 0..Pi, by the reflection sin(pi - y) = sin y.
SinHalf(m) == IF m <= HalfPi THEN SinQuarter(m) ELSE SinQuarter(Pi - m)

\* The sign of the binary64 value np.sin(x) where x is a nonzero multiple of
\* the float pi: k * fl(pi) falls short of k * pi by k * 1.22e-16, so the
\* sine is not 0 but +k*1.22e-16 for odd k and -k*1.22e-16 for even k
\* (sin(radians(180)) = 1.2246e-16, sin(radians(360)) = -2.4493e-16).
SinResidue(x) ==
    IF x = 0 \/ x % Pi # 0 THEN 0
    ELSE LET k == x \div Pi
             odd == IF k % 2 = 1 THEN 1 ELSE -1
         IN  IF k > 0 THEN odd ELSE -odd

\* np.sin(x), x in radian units: [val |-> the sine in SinScale units,
\* eps |-> the sign of the residue where val is 0 at a multiple of pi].
np_sin(x) ==
    LET m == x % TwoPi
    IN  [val |-> IF m <= Pi THEN SinHalf(m) ELSE -SinHalf(m - Pi),
         eps |-> SinResidue(x)]

\* numerator / np.sin(...): a Python float divided by a numpy float64.
\* numpy's division does not raise on a zero divisor: it warns and returns
\* inf (nan for 0/0).  num is in units of 1e-9 cubic metre and s.val in units
\* of 1/SinScale = 1e-5, so the quotient of the integers is in units of 1e-4
\* cubic metre.
true_divide(num, s) ==
    IF s.val > 0 THEN Fin(num \div s.val)
    ELSE IF s.val < 0 THEN Fin(-(num \div (-s.val)))
    ELSE IF s.eps # 0 THEN Fin(s.eps * Huge)
    ELSE IF num > 0 THEN Inf
    ELSE NaN

\* ------------------------------------------------------------------------
\* Faulty variants of calculate_overlap, used to show that the properties
\* below depend on it.

\* np.radians forgotten: the sine is taken of the degrees, read as radians.
calculate_overlap_degrees_as_radians(theta_deg, thickness, height) ==
    IF theta_deg < FloorDegrees THEN Inf
    ELSE true_divide(thickness * thickness * height,
                     np_sin(theta_deg * (RadScale \div DegScale)))

\* The guard written with <= instead of <.
calculate_overlap_inclusive_floor(theta_deg, thickness, height) ==
    IF theta_deg <= FloorDegrees THEN Inf
    ELSE true_divide(thickness * thickness * height,
                     np_sin(np_radians(theta_deg)))

\* The guard left out.
calculate_overlap_no_guard(theta_deg, thickness, height) ==
    true_divide(thickness * thickness * height, np_sin(np_radians(theta_deg)))

\* The guard raising ValueError instead of returning float('inf').
calculate_overlap_raising_guard(theta_deg, thickness, height) ==
    IF theta_deg < FloorDegrees THEN Raise
    ELSE true_divide(thickness * thickness * height,
                     np_sin(np_radians(theta_deg)))

\* np.cos written for np.sin.
calculate_overlap_cos(theta_deg, thickness, height) ==
    IF theta_deg < FloorDegrees THEN Inf
    ELSE true_divide(thickness * thickness * height,
                     np_sin(np_radians(theta_deg) + HalfPi))

\* def calculate_overlap(theta_deg, thickness=0.225, height=3.0)
calculate_overlap(theta_deg, thickness, height) ==
    IF theta_deg < FloorDegrees THEN Inf
    ELSE LET theta_rad == np_radians(theta_deg)
         IN  true_divide(thickness * thickness * height, np_sin(theta_rad))

\* Faulty variant: the grid of endpoint=False, which stops short of stop.
np_linspace_open(start, stop, num) ==
    [k \in 1..num |-> start + ((k - 1) * (stop - start)) \div num]

\* np.linspace(start, stop, num): num evenly spaced points, the last one
\* set to stop itself.
np_linspace(start, stop, num) ==
    IF num = 1 THEN << start >>
    ELSE [k \in 1..num |->
            IF k = num THEN stop
            ELSE start + ((k - 1) * (stop - start)) \div (num - 1)]

\* ------------------------------------------------------------------------
\* Bounds of the model.
MaxLen == 2       \* longest grid of the sweeps over arbitrary grids
MaxCalls == 2     \* direct calls of calculate_overlap in one session
MaxRuns == 2      \* invocations of the script

\* Inputs.
EvalAngles ==
    {-9000, -5, 0, 5, 9, 10, 11, 100, 1500, 3000, 4500, 6000, 8999, 9000,
     9001, 12000, 17999, 18000, 18001, 27000, 35999, 36000, 36001}
Thicknesses == {100, DefaultThickness, 500}
Heights == {1000, DefaultHeight}
Floors == {5, FloorDegrees, 100}
SweepAngles == {-9000, 5, 1500, 9000, 27000}
Domains == UNION {[1..n -> SweepAngles] : n \in 0..MaxLen}
Markers == {ThresholdMarker, FloorDegrees}
YLimTops == {YLimTop, 1000}

\* ------------------------------------------------------------------------
\* State.
VARIABLES
    domain,            \* the grid the sweep runs over
    threshold_marker,  \* x of the vertical line
    y_axis_limit,      \* top of the y axis
    pc,                \* the statement the script is at
    angles,            \* line 14
    volumes,           \* line 15, built element by element
    i,                 \* the comprehension's position in angles (1-based)
    figure,            \* the state of the pyplot figure
    saved,             \* the image written by savefig, or NoImage
    stdout,            \* lines printed
    runs,              \* invocations of the script so far
    earlier,           \* history: the settings and volumes of the earlier
                       \* invocations whose sweep completed
    thickness, height, \* arguments of the direct calls
    floor_degrees,     \* the floor a caller of the four-argument evaluate asks for
    calls              \* direct calls made: [theta_deg, ret]

vars == << domain, threshold_marker, y_axis_limit, pc, angles, volumes, i,
           figure, saved, stdout, runs, earlier, thickness, height,
           floor_degrees, calls >>

config == << domain, threshold_marker, y_axis_limit >>
callvars == << thickness, height, floor_degrees, calls >>

NoFigure == [open |-> FALSE, xs |-> << >>, ys |-> << >>, vlines |-> << >>,
             annotated |-> FALSE, ylim |-> << >>, xlim |-> << >>]
NoImage == [written |-> FALSE, figure |-> NoFigure]
Confirmation == "Plot saved to sensitivity.png"

RenderPcs == {"figure", "plot", "axvline", "annotate", "ylim", "xlim"}

\* The state of a fresh interpreter about to run line 14.
Fresh ==
    /\ pc = "linspace"
    /\ angles = << >>
    /\ volumes = << >>
    /\ i = 1
    /\ figure = NoFigure
    /\ saved = NoImage
    /\ stdout = << >>

NoCalls ==
    /\ thickness = DefaultThickness
    /\ height = DefaultHeight
    /\ floor_degrees = FloorDegrees
    /\ calls = << >>

\* The script as published.
Init ==
    /\ domain = np_linspace(LinspaceStart, LinspaceStop, LinspaceNum)
    /\ threshold_marker = ThresholdMarker
    /\ y_axis_limit = YLimTop
    /\ Fresh
    /\ runs = 1
    /\ earlier = {}
    /\ NoCalls

\* The script over an arbitrary grid and arbitrary presentation settings.
InitSweep ==
    /\ domain \in Domains
    /\ threshold_marker \in Markers
    /\ y_axis_limit \in YLimTops
    /\ Fresh
    /\ runs = 1
    /\ earlier = {}
    /\ NoCalls

\* A session of direct calls of calculate_overlap.
InitEval ==
    /\ domain = << >>
    /\ threshold_marker = ThresholdMarker
    /\ y_axis_limit = YLimTop
    /\ pc = "call"
    /\ angles = << >>
    /\ volumes = << >>
    /\ i = 1
    /\ figure = NoFigure
    /\ saved = NoImage
    /\ stdout = << >>
    /\ runs = 1
    /\ earlier = {}
    /\ thickness \in Thicknesses
    /\ height \in Heights
    /\ floor_degrees \in Floors
    /\ calls = << >>

\* ------------------------------------------------------------------------
\* Line 14: angles = np.linspace(1, 90, 500)
Linspace ==
    /\ pc = "linspace"
    /\ angles' = domain
    /\ pc' = "sweep"
    /\ UNCHANGED << config, volumes, i, figure, saved, stdout, runs, earlier,
                    callvars >>

\* Faulty variant: each new volume is put in front of the list.
SweepStepPrepend ==
    /\ pc = "sweep"
    /\ i <= Len(angles)
    /\ volumes' = << calculate_overlap(angles[i], DefaultThickness,
                                       DefaultHeight) >> \o volumes
    /\ i' = i + 1
    /\ UNCHANGED << config, pc, angles, figure, saved, stdout, runs, earlier,
                    callvars >>

\* Line 15, one element of the comprehension: volumes gets
\* calculate_overlap(a) for the next a of angles; an exception ends the run.
SweepStep ==
    /\ pc = "sweep"
    /\ i <= Len(angles)
    /\ LET v == calculate_overlap(angles[i], DefaultThickness, DefaultHeight)
       IN  IF v.kind = "raise"
             THEN pc' = "aborted" /\ UNCHANGED << volumes, i >>
             ELSE /\ volumes' = Append(volumes, v)
                  /\ i' = i + 1
                  /\ pc' = pc
    /\ UNCHANGED << config, angles, figure, saved, stdout, runs, earlier,
                    callvars >>

\* Line 15: angles is exhausted, the list is complete.
SweepEnd ==
    /\ pc = "sweep"
    /\ i > Len(angles)
    /\ pc' = "figure"
    /\ UNCHANGED << config, angles, volumes, i, figure, saved, stdout, runs,
                    earlier, callvars >>

\* Line 18: plt.figure(figsize=(10, 6))
Figure ==
    /\ pc = "figure"
    /\ figure' = [NoFigure EXCEPT !.open = TRUE]
    /\ pc' = "plot"
    /\ UNCHANGED << config, angles, volumes, i, saved, stdout, runs, earlier,
                    callvars >>

\* Line 19: plt.plot(angles, volumes, ...)
Plot ==
    /\ pc = "plot"
    /\ figure' = [figure EXCEPT !.xs = angles, !.ys = volumes]
    /\ pc' = "axvline"
    /\ UNCHANGED << config, angles, volumes, i, saved, stdout, runs, earlier,
                    callvars >>

\* Line 22: plt.axvline(x=15, ...)
Axvline ==
    /\ pc = "axvline"
    /\ figure' = [figure EXCEPT !.vlines = Append(@, threshold_marker)]
    /\ pc' = "annotate"
    /\ UNCHANGED << config, angles, volumes, i, saved, stdout, runs, earlier,
                    callvars >>

\* Lines 25-29: title, xlabel, ylabel, legend, grid
Annotate ==
    /\ pc = "annotate"
    /\ figure' = [figure EXCEPT !.annotated = TRUE]
    /\ pc' = "ylim"
    /\ UNCHANGED << config, angles, volumes, i, saved, stdout, runs, earlier,
                    callvars >>

\* Faulty variant: the limit is applied to the data instead of the view,
\* every volume above the top is replaced by the top.
YlimClipsData ==
    /\ pc = "ylim"
    /\ figure' = [figure EXCEPT !.ylim = << 0, y_axis_limit >>]
    /\ volumes' = [k \in 1..Len(volumes) |->
                     IF volumes[k].kind = "inf" \/ volumes[k].val > y_axis_limit
                       THEN Fin(y_axis_limit) ELSE volumes[k]]
    /\ pc' = "xlim"
    /\ UNCHANGED << config, angles, i, saved, stdout, runs, earlier,
                    callvars >>

\* Line 32: plt.ylim(0, 1.0)
Ylim ==
    /\ pc = "ylim"
    /\ figure' = [figure EXCEPT !.ylim = << 0, y_axis_limit >>]
    /\ pc' = "xlim"
    /\ UNCHANGED << config, angles, volumes, i, saved, stdout, runs, earlier,
                    callvars >>

\* Line 33: plt.xlim(0, 90)
Xlim ==
    /\ pc = "xlim"
    /\ figure' = [figure EXCEPT !.xlim = << 0, XLimRight >>]
    /\ pc' = "savefig"
    /\ UNCHANGED << config, angles, volumes, i, saved, stdout, runs, earlier,
                    callvars >>

\* Line 36: plt.savefig('sensitivity.png', dpi=300), the file is written.
Savefig ==
    /\ pc = "savefig"
    /\ saved' = [written |-> TRUE, figure |-> figure]
    /\ pc' = "print"
    /\ UNCHANGED << config, angles, volumes, i, figure, stdout, runs, earlier,
                    callvars >>

\* Faulty variant: the exception is caught and the script goes on to print.
RenderFailsSwallowed ==
    /\ pc \in RenderPcs \cup {"savefig"}
    /\ pc' = "print"
    /\ UNCHANGED << config, angles, volumes, i, figure, saved, stdout, runs,
                    earlier, callvars >>

\* Lines 18-36: a pyplot call raises (no backend, an unwritable path); the
\* script catches nothing, so the interpreter exits with a traceback.
RenderFails ==
    /\ pc \in RenderPcs \cup {"savefig"}
    /\ pc' = "aborted"
    /\ UNCHANGED << config, angles, volumes, i, figure, saved, stdout, runs,
                    earlier, callvars >>

\* Line 37: print("Plot saved to sensitivity.png")
PrintConfirmation ==
    /\ pc = "print"
    /\ stdout' = Append(stdout, Confirmation)
    /\ pc' = "done"
    /\ UNCHANGED << config, angles, volumes, i, figure, saved, runs, earlier,
                    callvars >>

\* What an invocation that ends leaves in the history.
Ended ==
    IF pc \notin {"linspace", "sweep"}
      THEN earlier \cup {[threshold_marker |-> threshold_marker,
                          y_axis_limit |-> y_axis_limit,
                          volumes |-> volumes]}
      ELSE earlier

\* Faulty variant: the list of the ended invocation is still there when the
\* next one starts, and the sweep appends to it.
RelaunchKeepsVolumes ==
    /\ pc \in {"done", "aborted"}
    /\ runs < MaxRuns
    /\ runs' = runs + 1
    /\ earlier' = Ended
    /\ pc' = "linspace"
    /\ angles' = << >>
    /\ i' = 1
    /\ figure' = NoFigure
    /\ saved' = NoImage
    /\ stdout' = << >>
    /\ UNCHANGED << config, volumes, callvars >>

\* The script is invoked again with the same literals: a fresh interpreter.
Relaunch ==
    /\ pc \in {"done", "aborted"}
    /\ runs < MaxRuns
    /\ runs' = runs + 1
    /\ earlier' = Ended
    /\ pc' = "linspace"
    /\ angles' = << >>
    /\ volumes' = << >>
    /\ i' = 1
    /\ figure' = NoFigure
    /\ saved' = NoImage
    /\ stdout' = << >>
    /\ UNCHANGED << config, callvars >>

\* The script is invoked again after its presentation literals (the x of
\* axvline, the top of ylim) were edited; the grid is the same.
Reconfigure ==
    /\ pc \in {"done", "aborted"}
    /\ runs < MaxRuns
    /\ runs' = runs + 1
    /\ earlier' = Ended
    /\ \E m \in Markers, y \in YLimTops :
          /\ << m, y >> # << threshold_marker, y_axis_limit >>
          /\ threshold_marker' = m
          /\ y_axis_limit' = y
    /\ pc' = "linspace"
    /\ angles' = << >>
    /\ volumes' = << >>
    /\ i' = 1
    /\ figure' = NoFigure
    /\ saved' = NoImage
    /\ stdout' = << >>
    /\ UNCHANGED << domain, callvars >>

\* A direct call calculate_overlap(theta_deg, thickness, height).
Evaluate(theta_deg) ==
    /\ pc = "call"
    /\ Len(calls) < MaxCalls
    /\ calls' = Append(calls,
                  [theta_deg |-> theta_deg,
                   ret |-> calculate_overlap(theta_deg, thickness, height)])
    /\ UNCHANGED << config, pc, angles, volumes, i, figure, saved, stdout,
                    runs, earlier, thickness, height, floor_degrees >>

Call == \E theta_deg \in EvalAngles : Evaluate(theta_deg)

Next ==
    \/ Linspace
    \/ SweepStep
    \/ SweepEnd
    \/ Figure
    \/ Plot
    \/ Axvline
    \/ Annotate
    \/ Ylim
    \/ Xlim
    \/ Savefig
    \/ RenderFails
    \/ PrintConfirmation
    \/ Relaunch

NextSweep == Next \/ Reconfigure

Spec == Init /\ [][Next]_vars
SpecSweep == InitSweep /\ [][NextSweep]_vars
SpecEval == InitEval /\ [][Call]_vars

\* ------------------------------------------------------------------------
\* Properties of calculate_overlap, checked under SpecEval.

\* The numerator thickness^2 * height of the session's calls.
Numerator == thickness * thickness * height

WholeDegree(a) == a % DegScale = 0

\* sin of a whole number of degrees in 0..180, read off the table in degrees
\* (no conversion to radians): the reference the results are compared with.
RefSin(a) ==
    LET d == a \div DegScale
    IN  IF d <= 90 THEN SinTable[d + 1] ELSE SinTable[180 - d + 1]

\* v is thickness^2 * height / sin(a degrees), to within one unit of the sine
\* resolution and one unit of the volume resolution.
IsQuotient(v, a) ==
    /\ v >= Numerator \div (RefSin(a) + 1)
    /\ v <= Numerator \div (RefSin(a) - 1) + 1

PositiveFinite(c) ==
    /\ c.ret.kind = "fin"
    /\ c.ret.val > 0
    /\ c.ret.val < Huge
    /\ (WholeDegree(c.theta_deg) /\ c.theta_deg < 18000
          => IsQuotient(c.ret.val, c.theta_deg))
    /\ (c.theta_deg = 9000 => c.ret.val = Numerator \div SinScale)

\* C1, as claimed: every call with angle_degrees >= floor_degrees returns a
\* finite, strictly positive value equal to thickness^2 * height /
\* sin(angle_degrees), which at 90 degrees is thickness^2 * height.
C1_AsClaimed ==
    \A k \in 1..Len(calls) :
        calls[k].theta_deg >= floor_degrees => PositiveFinite(calls[k])

\* C1, amended: every call with 0.1 <= angle_degrees < 180 returns a finite,
\* strictly positive value equal to thickness^2 * height /
\* sin(angle_degrees), which at 90 degrees is thickness^2 * height.
C1_PositiveBelow180 ==
    \A k \in 1..Len(calls) :
        (calls[k].theta_deg >= FloorDegrees /\ calls[k].theta_deg < 18000)
            => PositiveFinite(calls[k])

C1_Witness ==
    \E j, k \in 1..Len(calls) :
        /\ calls[j].theta_deg = 9000
        /\ calls[j].ret = Fin(Numerator \div SinScale)
        /\ calls[k].theta_deg = 1500
        /\ calls[k].ret.kind = "fin"

\* C2, as claimed: with floor_degrees the floor the caller asks for, a call
\* returns the infinite sentinel if angle_degrees < floor_degrees and never
\* if angle_degrees >= floor_degrees.
C2_AsClaimed ==
    \A k \in 1..Len(calls) :
        (calls[k].theta_deg < floor_degrees) <=> (calls[k].ret.kind = "inf")

\* C2, amended: the floor is the literal 0.1 degrees whatever floor the
\* caller asks for; a call returns the infinite sentinel if angle_degrees <
\* 0.1 (zero and negative angles included) and never if angle_degrees >= 0.1.
C2_LiteralFloor ==
    \A k \in 1..Len(calls) :
        (calls[k].theta_deg < FloorDegrees) <=> (calls[k].ret = Inf)

C2_Witness ==
    /\ floor_degrees # FloorDegrees
    /\ \E j, k \in 1..Len(calls) :
        /\ calls[j].theta_deg < 0
        /\ calls[j].ret = Inf
        /\ calls[k].theta_deg = FloorDegrees
        /\ calls[k].ret.kind = "fin"

\* C4: a call returns a value for every angle, those at multiples of 180
\* degrees included: no exception leaves it, and it changes nothing but the
\* record of the call itself.
C4_Total ==
    [][ /\ Len(calls') = Len(calls) + 1
        /\ calls'[Len(calls')].ret.kind \in {"fin", "inf"}
        /\ SubSeq(calls', 1, Len(calls)) = calls
        /\ UNCHANGED << config, pc, angles, volumes, i, figure, saved, stdout,
                        runs, earlier, thickness, height, floor_degrees >>
      ]_vars

C4_Witness ==
    \E j, k \in 1..Len(calls) :
        /\ calls[j].theta_deg = 18000
        /\ calls[j].ret.kind = "fin"
        /\ calls[k].theta_deg = 36000
        /\ calls[k].ret.kind = "fin"

\* r1 >= r2, the infinite sentinel counting above every finite value.
AtLeast(r1, r2) ==
    \/ r1.kind = "inf"
    \/ r1.kind = "fin" /\ r2.kind = "fin" /\ r1.val >= r2.val

InRange0To90(a) == a > 0 /\ a <= 9000

\* C5: for the session's thickness and height, of two calls with angles
\* a1 <= a2 in (0, 90] the first returns at least what the second returns,
\* and no call in that range returns less than thickness^2 * height, the
\* value at 90 degrees.
C5_NonIncreasing ==
    \A j, k \in 1..Len(calls) :
        LET c1 == calls[j]
            c2 == calls[k]
        IN  /\ (InRange0To90(c1.theta_deg) /\ InRange0To90(c2.theta_deg)
                  /\ c1.theta_deg <= c2.theta_deg) => AtLeast(c1.ret, c2.ret)
            /\ InRange0To90(c1.theta_deg)
                  => AtLeast(c1.ret, Fin(Numerator \div SinScale))
            /\ c1.theta_deg = 9000 => c1.ret = Fin(Numerator \div SinScale)

C5_Witness ==
    \E j, k \in 1..Len(calls) :
        /\ calls[j].theta_deg = 1500
        /\ calls[k].theta_deg = 9000
        /\ calls[j].ret.kind = "fin"
        /\ calls[k].ret.kind = "fin"
        /\ calls[j].ret.val > calls[k].ret.val

\* ------------------------------------------------------------------------
\* Properties of the sweep, checked under SpecSweep.

\* The Samples produced so far: the k-th pairs angles[k] with volumes[k].
Samples ==
    [k \in 1..Len(volumes) |-> [angle |-> angles[k], volume |-> volumes[k]]]

SweepComplete == pc \notin {"linspace", "sweep", "call"}

InDomain(a) == \E k \in 1..Len(domain) : domain[k] = a

FiniteNonNegativeOrInf(r) ==
    \/ r = Inf
    \/ r.kind = "fin" /\ r.val >= 0

\* C3, as claimed: whatever the domain, every Sample's angle is a point of
\* the domain and its volume is a finite non-negative number or the infinite
\* sentinel, never NaN and never negative.
C3_AsClaimed ==
    \A k \in 1..Len(Samples) :
        /\ InDomain(Samples[k].angle)
        /\ FiniteNonNegativeOrInf(Samples[k].volume)

\* C3, amended: for a domain whose points are all below 180 degrees, every
\* Sample's angle is a point of the domain and its volume is a finite
\* non-negative number or the infinite sentinel, never NaN and never negative.
C3_Below180 ==
    (\A n \in 1..Len(domain) : domain[n] < 18000)
        => \A k \in 1..Len(Samples) :
              /\ InDomain(Samples[k].angle)
              /\ FiniteNonNegativeOrInf(Samples[k].volume)

C3_Witness ==
    /\ pc = "done"
    /\ Len(Samples) = 2
    /\ Samples[1].angle < 0
    /\ Samples[1].volume = Inf
    /\ Samples[2].volume.kind = "fin"

\* C6: the sweep never holds more Samples than the domain has points, the
\* k-th Sample is the k-th domain point with calculate_overlap of it, and the
\* completed sweep holds exactly one Sample per domain point, which is what
\* the plotted line is given.
C6_LengthAndOrder ==
    /\ Len(Samples) <= Len(domain)
    /\ \A k \in 1..Len(Samples) :
          /\ Samples[k].angle = domain[k]
          /\ Samples[k].volume =
                calculate_overlap(domain[k], DefaultThickness, DefaultHeight)
    /\ SweepComplete => Len(Samples) = Len(domain)
    /\ pc \in {"axvline", "annotate", "ylim", "xlim", "savefig", "print", "done"}
          => figure.xs = domain /\ Len(figure.ys) = Len(domain)

C6_Witness ==
    /\ pc = "done"
    /\ Len(domain) = 2
    /\ domain[1] > domain[2]
    /\ Len(Samples) = 2
    /\ Samples[1].volume # Samples[2].volume

C8_PresentationOnly ==
    [][ /\ (pc \in RenderPcs \cup {"savefig", "print"})
              => (angles' = angles /\ volumes' = volumes)
        /\ (pc' \notin {"linspace", "sweep", "call"})
              => \A e \in earlier' :
                    (e.threshold_marker # threshold_marker'
                       \/ e.y_axis_limit # y_axis_limit')
                        => e.volumes = volumes'
      ]_vars

C8_Witness ==
    /\ pc = "savefig"
    /\ figure.vlines = << FloorDegrees >>
    /\ figure.ylim = << 0, y_axis_limit >>
    /\ \E k \in 1..Len(volumes) :
          volumes[k].kind = "inf" \/ volumes[k].val > y_axis_limit
    /\ \E e \in earlier : /\ e.threshold_marker # threshold_marker
                          /\ e.y_axis_limit # y_axis_limit

\* ------------------------------------------------------------------------
\* Properties of the script as published, checked under Spec.

FullyRendered(f) ==
    /\ f.open
    /\ f.xs = angles
    /\ f.ys = volumes
    /\ f.vlines = << threshold_marker >>
    /\ f.annotated
    /\ f.ylim = << 0, y_axis_limit >>
    /\ f.xlim = << 0, XLimRight >>

\* C9: the image is saved only once the sweep is complete and the figure
\* rendered, the confirmation is printed only once the image is saved, at
\* most once, and a run that aborted has printed nothing.
C9_Order ==
    /\ saved.written =>
          /\ Len(volumes) = Len(domain)
          /\ FullyRendered(saved.figure)
          /\ pc \in {"print", "done"}
    /\ stdout # << >> =>
          /\ stdout = << Confirmation >>
          /\ saved.written
          /\ pc = "done"
    /\ pc = "done" => stdout = << Confirmation >>
    /\ pc = "aborted" => stdout = << >> /\ ~saved.written

C9_Witness ==
    /\ pc = "done"
    /\ stdout = << Confirmation >>
    /\ saved.written
    /\ Len(saved.figure.ys) = LinspaceNum

\* The published numerator, 0.225^2 * 3.0.
PublishedNumerator == DefaultThickness * DefaultThickness * DefaultHeight

\* C10: with the published grid no Sample carries the infinite sentinel;
\* every volume is finite, at least thickness^2 * height and at most
\* thickness^2 * height / sin(1 degree); the first Sample is at 1 degree and
\* the last, the 500th, at 90 degrees with volume thickness^2 * height.
C10_Published ==
    /\ \A k \in 1..Len(Samples) :
          /\ Samples[k].volume.kind = "fin"
          /\ Samples[k].volume.val >= PublishedNumerator \div SinScale
          /\ Samples[k].volume.val
                <= PublishedNumerator \div (RefSin(LinspaceStart) - 1) + 1
          /\ Samples[k].angle >= LinspaceStart
          /\ Samples[k].angle <= LinspaceStop
    /\ Len(Samples) >= 1 =>
          /\ Samples[1].angle = LinspaceStart
          /\ Samples[1].volume.val
                >= PublishedNumerator \div (RefSin(LinspaceStart) + 1)
    /\ SweepComplete =>
          /\ Len(Samples) = LinspaceNum
          /\ Samples[LinspaceNum].angle = LinspaceStop
          /\ Samples[LinspaceNum].volume
                = Fin(PublishedNumerator \div SinScale)

C10_Witness ==
    /\ pc = "done"
    /\ Len(Samples) = LinspaceNum
    /\ Samples[1].volume.val > Samples[LinspaceNum].volume.val
=============================================================================
